---------------------------- MODULE Spec2Model ----------------------------
(***************************************************************************)
(* Lemonade stand simulation (src/Lemonstand.ts): the seeded generator     *)
(* RNG, the demand model Market, the Inventory with its pitcher, and the   *)
(* Simulation engine that runs one day at a time.                          *)
(*                                                                         *)
(* Numbers.  Money is counted in mills (1/1000 dollar): ingredient prices  *)
(* have three decimals (PriceList.random rounds with toFixed(3)), selling  *)
(* prices are whole cents.  The double arithmetic of the source is exact   *)
(* on these values up to errors far below the 1e-9 settlement tolerance,   *)
(* so `cost > cash + 1e-9' is `cost > cash' on mills.  A drawn 32-bit      *)
(* word x stands for the double x / 0xffffffff, and every comparison and   *)
(* floor on it is computed exactly on the rationals.  exp, log, sqrt and   *)
(* cos are tabulated.                                                      *)
(***************************************************************************)
EXTENDS Integers, Sequences, FiniteSets, TLC

(***************************************************************************)
(* Bounds of the model.                                                    *)
(***************************************************************************)
\* number of day invocations (executeDay calls) in one behaviour
MaxDays == 2

\* largest count the direct Inventory.add calls may build up per ingredient
MaxStock == 3

(***************************************************************************)
(* RNG: xorshift32 on a 32-bit word.  A word is kept as its two 16-bit     *)
(* halves, [hi, lo], standing for hi * 2^16 + lo.                          *)
(***************************************************************************)
Word(hi, lo) == [hi |-> hi, lo |-> lo]

\* seed >>> 0 for a non-negative seed below 2^31
ToWord(n) == Word(n \div 65536, n % 65536)

\* exclusive or of two 4-bit numbers a and b: XorNibble[a + 1][b + 1]
XorNibble ==
    <<<<0, 1, 2, 3, 4, 5, 6, 7, 8, 9, 10, 11, 12, 13, 14, 15>>,
      <<1, 0, 3, 2, 5, 4, 7, 6, 9, 8, 11, 10, 13, 12, 15, 14>>,
      <<2, 3, 0, 1, 6, 7, 4, 5, 10, 11, 8, 9, 14, 15, 12, 13>>,
      <<3, 2, 1, 0, 7, 6, 5, 4, 11, 10, 9, 8, 15, 14, 13, 12>>,
      <<4, 5, 6, 7, 0, 1, 2, 3, 12, 13, 14, 15, 8, 9, 10, 11>>,
      <<5, 4, 7, 6, 1, 0, 3, 2, 13, 12, 15, 14, 9, 8, 11, 10>>,
      <<6, 7, 4, 5, 2, 3, 0, 1, 14, 15, 12, 13, 10, 11, 8, 9>>,
      <<7, 6, 5, 4, 3, 2, 1, 0, 15, 14, 13, 12, 11, 10, 9, 8>>,
      <<8, 9, 10, 11, 12, 13, 14, 15, 0, 1, 2, 3, 4, 5, 6, 7>>,
      <<9, 8, 11, 10, 13, 12, 15, 14, 1, 0, 3, 2, 5, 4, 7, 6>>,
      <<10, 11, 8, 9, 14, 15, 12, 13, 2, 3, 0, 1, 6, 7, 4, 5>>,
      <<11, 10, 9, 8, 15, 14, 13, 12, 3, 2, 1, 0, 7, 6, 5, 4>>,
      <<12, 13, 14, 15, 8, 9, 10, 11, 4, 5, 6, 7, 0, 1, 2, 3>>,
      <<13, 12, 15, 14, 9, 8, 11, 10, 5, 4, 7, 6, 1, 0, 3, 2>>,
      <<14, 15, 12, 13, 10, 11, 8, 9, 6, 7, 4, 5, 2, 3, 0, 1>>,
      <<15, 14, 13, 12, 11, 10, 9, 8, 7, 6, 5, 4, 3, 2, 1, 0>>>>

\* exclusive or of two 16-bit numbers, nibble by nibble
Xor16(a, b) ==
    XorNibble[(a % 16) + 1][(b % 16) + 1]
    + 16 * XorNibble[((a \div 16) % 16) + 1][((b \div 16) % 16) + 1]
    + 256 * XorNibble[((a \div 256) % 16) + 1][((b \div 256) % 16) + 1]
    + 4096 * XorNibble[(a \div 4096) + 1][(b \div 4096) + 1]

Xor(x, y) == Word(Xor16(x.hi, y.hi), Xor16(x.lo, y.lo))

\* x << 13, x >>> 17 and x << 5 on a 32-bit word
Shl13(x) == Word((x.hi % 8) * 8192 + (x.lo \div 8), (x.lo % 8) * 8192)
Shr17(x) == Word(0, x.hi \div 2)
Shl5(x) == Word((x.hi % 2048) * 32 + (x.lo \div 2048), (x.lo % 2048) * 32)

\* x ^= x << 13; x ^= x >>> 17; x ^= x << 5
Mix1(x) == Xor(x, Shl13(x))
Mix2(x) == Xor(x, Shr17(x))
Mix3(x) == Xor(x, Shl5(x))

\* RNG.nextUint: the new state, which is also the value returned
nextUint(x) == Mix3(Mix2(Mix1(x)))

(***************************************************************************)
(* Exact comparisons on a drawn word x, read as the fraction x/0xffffffff. *)
(* With F = 2^32 - 1 and x = hi*2^16 + lo:  a*x + m = H*2^16 + R, and      *)
(* m*F <= a*x  iff  a*x + m >= m*2^32  iff  H >= m*2^16.                   *)
(***************************************************************************)
Carry(a, x, m) ==
    Word(a * x.hi + ((a * x.lo + m) \div 65536), (a * x.lo + m) % 65536)

\* m * 0xffffffff <= a * x
GeF(a, x, m) == m <= 0 \/ Carry(a, x, m).hi >= m * 65536

\* c > m * 2^32 for a carried sum c
Exceeds(c, m) == c.hi > m * 65536 \/ (c.hi = m * 65536 /\ c.lo > 0)

\* m * 0xffffffff < a * x
GtF(a, x, m) == m < 0 \/ Exceeds(Carry(a, x, m), m)

\* floor(a * x / 0xffffffff), for a >= 1
FloorF(a, x) == Cardinality({k \in 1..a : GeF(a, x, k)})

\* RNG.int(min, max) = floor(uniform(min, max + 1)) on the drawn word x
int(min, max, x) == min + FloorF(max + 1 - min, x)


(***************************************************************************)
(* Weather                                                                 *)
(***************************************************************************)
WeatherKind == {"Cold", "Mild", "Hot", "Storm"}

Weather(kind, tempF) == [kind |-> kind, tempF |-> tempF]

\* Weather.demandBoost, in percent (1.4, 1.0, 0.6, 0.25)
demandBoost(weather) ==
    CASE weather.kind = "Hot" -> 140
      [] weather.kind = "Mild" -> 100
      [] weather.kind = "Cold" -> 60
      [] weather.kind = "Storm" -> 25

\* Simulation.forecast from generator state s: two draws.
\* roll < 0.10 iff 10 * x < F, and so on.
forecast(s) ==
    LET x1 == nextUint(s)
        x2 == nextUint(x1)
        w  == IF ~GeF(100, x1, 10) THEN Weather("Storm", int(65, 75, x2))
              ELSE IF ~GeF(100, x1, 35) THEN Weather("Cold", int(55, 65, x2))
              ELSE IF ~GeF(100, x1, 75) THEN Weather("Mild", int(70, 84, x2))
              ELSE Weather("Hot", int(85, 100, x2))
    IN  [seed |-> x2, weather |-> w]

(***************************************************************************)
(* PriceList                                                               *)
(***************************************************************************)
PriceList(lemonPrice, sugarPrice, icePrice, cupPrice) ==
    [lemonPrice |-> lemonPrice, sugarPrice |-> sugarPrice,
     icePrice |-> icePrice, cupPrice |-> cupPrice]

\* vary(base, spreadPct) in PriceList.random on the drawn word x, in mills:
\* +(base * (1 + uniform(-spread, spread))).toFixed(3), base in mills and the
\* spread in percent.  1000 * value = base * (100 - spread + 2*spread*x/F) / 100,
\* rounded half up: the largest k with (100k - base*(100-spread) - 50) * F <=
\* 2 * base * spread * x.
vary(base, spreadPct, x) ==
    LET low == base * (100 - spreadPct) + 50
        k0  == low \div 100
        top == (2 * base * spreadPct) \div 100 + 1
    IN  k0 + Cardinality({j \in 1..top :
                 GeF(2 * base * spreadPct, x, 100 * (k0 + j) - low)})

\* a price list that draws for the cups first and for the lemons last
pricesCupsFirst(s) ==
    LET x1 == nextUint(s)
        x2 == nextUint(x1)
        x3 == nextUint(x2)
        x4 == nextUint(x3)
    IN  [seed |-> x4,
         prices |-> PriceList(vary(50, 25, x4), vary(70, 25, x2),
                              vary(10, 30, x3), vary(20, 25, x1))]

\* PriceList.random from generator state s: four draws, lemons, sugar, ice, cups
prices(s) ==
    LET x1 == nextUint(s)
        x2 == nextUint(x1)
        x3 == nextUint(x2)
        x4 == nextUint(x3)
    IN  [seed |-> x4,
         prices |-> PriceList(vary(50, 25, x1), vary(70, 25, x2),
                              vary(10, 30, x3), vary(20, 25, x4))]

(***************************************************************************)
(* Market                                                                  *)
(***************************************************************************)
\* 8 * sqrt(-2 ln u) * 1000 for u = 1 - x/F, by the top four bits of x
\* (value at the middle of each sixteenth)
RadiusTable ==
    <<2016, 3550, 4663, 5621, 6502, 7343, 8169, 8998,
      9848, 10738, 11691, 12742, 13948, 15414, 17407, 21062>>

\* cos(2 pi v) * 1000 for v = x/F, by the top four bits of x
CosTable ==
    <<981, 831, 556, 195, -195, -556, -831, -981,
      -981, -831, -556, -195, 195, 556, 831, 981>>

Sixteenth(x) == x.hi \div 4096

\* RNG.normal(0, 8) on the two drawn words, in millionths
normal(x1, x2) == RadiusTable[Sixteenth(x1) + 1] * CosTable[Sixteenth(x2) + 1]

Max(a, b) == IF a >= b THEN a ELSE b
Min(a, b) == IF a <= b THEN a ELSE b

\* Math.round of n / 1000000 (half rounds up, also below zero)
Round(n) == (n + 500000) \div 1000000

\* the number Infinity, as the largest number of the model
Infinity == 2147483647

\* u = 1 - uniform() is 0: the word drawn is 0xffffffff, Math.log(u) is
\* -Infinity and the sample is Infinity or -Infinity by the sign of the cosine
LogOfZero(x1) == x1 = Word(65535, 65535)

\* Market.customerTraffic from generator state s: two draws (Box-Muller)
customerTraffic(s, weather) ==
    LET x1 == nextUint(s)
        x2 == nextUint(x1)
    IN  [seed |-> x2,
         customers |->
            IF LogOfZero(x1)
            THEN IF CosTable[Sixteenth(x2) + 1] > 0 THEN Infinity ELSE 0
            ELSE Max(0, Round(60 * demandBoost(weather) * 10000
                                + normal(x1, x2)))]

\* 1 / (1 + exp(3 * (price / 0.25 - 1))) in 1/10000, for the prices of 1 to 125
\* cents
LogisticTable ==
    <<9468, 9405, 9334, 9255, 9168, 9072, 8966, 8849, 8721, 8581,
      8429, 8264, 8085, 7892, 7685, 7465, 7231, 6985, 6726, 6457,
      6177, 5890, 5597, 5300, 5000, 4700, 4403, 4110, 3823, 3543,
      3274, 3015, 2769, 2535, 2315, 2108, 1915, 1736, 1571, 1419,
      1279, 1151, 1034, 928, 832, 745, 666, 595, 532, 474,
      423, 377, 336, 299, 266, 237, 210, 187, 166, 148,
      131, 117, 104, 92, 82, 72, 64, 57, 51, 45,
      40, 35, 31, 28, 25, 22, 19, 17, 15, 14,
      12, 11, 9, 8, 7, 7, 6, 5, 5, 4,
      4, 3, 3, 3, 2, 2, 2, 2, 1, 1,
      1, 1, 1, 1, 1, 1, 1, 0, 0, 0,
      0, 0, 0, 0, 0, 0, 0, 0, 0, 0,
      0, 0, 0, 0, 0 >>

\* 1 / (1 + exp(3 * (price / 0.25 - 1))) in 1/10000, price in cents; rounded
\* to 0 from $1.08 on
Logistic(price) == IF price <= 125 THEN LogisticTable[price] ELSE 0

\* Market.buyProbability in 1/10000
buyProbability(price, weather) ==
    LET p == Min(10000, (Logistic(price) * (6500 + 35 * demandBoost(weather)))
                           \div 10000)
    IN  Max(0, Min(10000, p))

\* rng.uniform() <= pBuy on the drawn word x:  10000 * x <= pBuy * F
Buys(x, pBuy) == ~GtF(10000, x, pBuy)

\* buyProbability(price, weather) is below 1 / 0xffffffff, the least uniform()
\* a generator with a non-zero seed returns, in any weather: from $2.12 on
\* (1.14 / (1 + exp(3 * (2.12 / 0.25 - 1))) = 2.1e-10).  No customer ever buys.
NeverBuys(price) == price >= 212

(***************************************************************************)
(* Recipe, PurchaseOrder, DayPlan                                          *)
(***************************************************************************)
Recipe(lemonsPerPitcher, sugarCupsPerPitcher, iceCubesPerCup, cupsPerPitcher) ==
    [lemonsPerPitcher |-> lemonsPerPitcher,
     sugarCupsPerPitcher |-> sugarCupsPerPitcher,
     iceCubesPerCup |-> iceCubesPerCup,
     cupsPerPitcher |-> cupsPerPitcher]

\* new Recipe(): 6 lemons and 4 cups of sugar per pitcher, 4 ice cubes per cup,
\* 12 cups per pitcher
DefaultRecipe == Recipe(6, 4, 4, 12)

PurchaseOrder(lemons, sugarCups, iceCubes, cups) ==
    [lemons |-> lemons, sugarCups |-> sugarCups, iceCubes |-> iceCubes,
     cups |-> cups]

DayPlan(setPricePerCup, order, recipe) ==
    [setPricePerCup |-> setPricePerCup, order |-> order, recipe |-> recipe]

(***************************************************************************)
(* Inventory                                                               *)
(***************************************************************************)
\* new Inventory()
EmptyInventory ==
    [lemons |-> 0, sugar |-> 0, ice |-> 0, cups |-> 0, cupsLeftInPitcher |-> 0]

\* Inventory.add
add(inv, lemons, sugar, ice, cups) ==
    [inv EXCEPT !.lemons = @ + lemons, !.sugar = @ + sugar,
                !.ice = @ + ice, !.cups = @ + cups]

\* a night that keeps the fraction lost instead of the fraction left
meltIceKeepsLost(inv, percentLost) ==
    [inv EXCEPT !.ice = Max(0, (@ * percentLost) \div 100)]

\* a night that also empties the pitcher
meltIceEmptiesPitcher(inv, percentLost) ==
    [inv EXCEPT !.ice = Max(0, (@ * (100 - percentLost)) \div 100),
                !.cupsLeftInPitcher = 0]

\* Inventory.meltIce, percentLost in percent
meltIce(inv, percentLost) ==
    [inv EXCEPT !.ice = Max(0, (@ * (100 - percentLost)) \div 100)]

\* a brew that looks at the lemons only
tryBrewPitcherLemonsOnly(inv, recipe) ==
    IF inv.lemons >= recipe.lemonsPerPitcher
    THEN [inv |-> [inv EXCEPT !.lemons = @ - recipe.lemonsPerPitcher,
                              !.sugar = @ - recipe.sugarCupsPerPitcher,
                              !.cupsLeftInPitcher = recipe.cupsPerPitcher],
          ret |-> TRUE]
    ELSE [inv |-> inv, ret |-> FALSE]

\* Inventory.tryBrewPitcher: the inventory after the call and the value returned
tryBrewPitcher(inv, recipe) ==
    IF inv.lemons >= recipe.lemonsPerPitcher
         /\ inv.sugar >= recipe.sugarCupsPerPitcher
    THEN [inv |-> [inv EXCEPT !.lemons = @ - recipe.lemonsPerPitcher,
                              !.sugar = @ - recipe.sugarCupsPerPitcher,
                              !.cupsLeftInPitcher = recipe.cupsPerPitcher],
          ret |-> TRUE]
    ELSE [inv |-> inv, ret |-> FALSE]

\* a serving that counts the pitcher up
ServeOneCupCountsUp(inv, recipe) ==
    [inv EXCEPT !.cups = @ - 1,
                !.ice = @ - recipe.iceCubesPerCup,
                !.cupsLeftInPitcher = @ + 1]

\* the serving lines of Inventory.pourCup
ServeOneCup(inv, recipe) ==
    [inv EXCEPT !.cups = @ - 1,
                !.ice = @ - recipe.iceCubesPerCup,
                !.cupsLeftInPitcher = @ - 1]

\* a pour that takes the cup and the ice before it brews
pourCupTakesCupFirst(inv, recipe) ==
    IF inv.cups <= 0 \/ inv.ice < recipe.iceCubesPerCup
    THEN [inv |-> inv, ret |-> FALSE, tried |-> FALSE, brewed |-> FALSE]
    ELSE LET taken == [inv EXCEPT !.cups = @ - 1,
                                  !.ice = @ - recipe.iceCubesPerCup]
         IN  IF inv.cupsLeftInPitcher <= 0
             THEN LET b == tryBrewPitcher(taken, recipe)
                  IN  IF ~b.ret
                      THEN [inv |-> b.inv, ret |-> FALSE, tried |-> TRUE,
                            brewed |-> FALSE]
                      ELSE [inv |-> [b.inv EXCEPT !.cupsLeftInPitcher = @ - 1],
                            ret |-> TRUE, tried |-> TRUE, brewed |-> TRUE]
             ELSE [inv |-> [taken EXCEPT !.cupsLeftInPitcher = @ - 1],
                   ret |-> TRUE, tried |-> FALSE, brewed |-> FALSE]

\* a pour that brews before it looks at the cups and the ice
pourCupBrewsFirst(inv, recipe) ==
    LET b == IF inv.cupsLeftInPitcher <= 0 THEN tryBrewPitcher(inv, recipe)
             ELSE [inv |-> inv, ret |-> TRUE]
        tried == inv.cupsLeftInPitcher <= 0
    IN  IF ~b.ret
        THEN [inv |-> b.inv, ret |-> FALSE, tried |-> tried, brewed |-> FALSE]
        ELSE IF b.inv.cups <= 0 \/ b.inv.ice < recipe.iceCubesPerCup
        THEN [inv |-> b.inv, ret |-> FALSE, tried |-> tried, brewed |-> tried]
        ELSE [inv |-> ServeOneCup(b.inv, recipe), ret |-> TRUE,
              tried |-> tried, brewed |-> tried]

\* Inventory.pourCup: the inventory after the call, the value returned, and
\* whether tryBrewPitcher was called and whether it brewed
pourCup(inv, recipe) ==
    IF inv.cups <= 0 \/ inv.ice < recipe.iceCubesPerCup
    THEN [inv |-> inv, ret |-> FALSE, tried |-> FALSE, brewed |-> FALSE]
    ELSE IF inv.cupsLeftInPitcher <= 0
    THEN LET b == tryBrewPitcher(inv, recipe)
         IN  IF ~b.ret
             THEN [inv |-> b.inv, ret |-> FALSE, tried |-> TRUE, brewed |-> FALSE]
             ELSE [inv |-> ServeOneCup(b.inv, recipe), ret |-> TRUE,
                   tried |-> TRUE, brewed |-> TRUE]
    ELSE [inv |-> ServeOneCup(inv, recipe), ret |-> TRUE, tried |-> FALSE,
          brewed |-> FALSE]

(***************************************************************************)
(* Inputs of the model                                                     *)
(***************************************************************************)
\* seeds given to new Simulation(stand, seed): the default and the demo's
Seeds == {42, 2025}

\* starting cash in mills: 10.00 (the demo) and 0.01
StartingCash == {10000, 10}

ZeroYieldRecipe == Recipe(1, 1, 1, 0)
SmallRecipe == Recipe(1, 1, 1, 2)

\* the day plans a policy or a manual caller may hand in
Plans ==
    { DayPlan(25, PurchaseOrder(6, 4, 48, 12), DefaultRecipe),
      DayPlan(25, PurchaseOrder(0, 0, 0, 0), DefaultRecipe),
      DayPlan(10, PurchaseOrder(2, 2, 4, 4), SmallRecipe),
      DayPlan(25, PurchaseOrder(0, 0, 0, 1000), DefaultRecipe),
      DayPlan(5, PurchaseOrder(1, 1, 3, 3), ZeroYieldRecipe),
      DayPlan(100, PurchaseOrder(0, 1, 0, 0), DefaultRecipe) }

\* "no argument" of runDayManual's optional weather and prices
Undefined == [kind |-> "undefined"]

PinnedWeather == {Weather("Storm", 70)}
PinnedPrices == {PriceList(53, 55, 10, 17)}

(***************************************************************************)
(* State.  The program is single-threaded and synchronous, so a call is    *)
(* one step; runDays is one step per iteration of its loop, with nothing   *)
(* else enabled in between.                                                *)
(***************************************************************************)
VARIABLES
    cash,         \* StandState.cash, in mills
    recipe,       \* StandState.recipe
    pricePerCup,  \* StandState.pricePerCup, in cents
    inventory,    \* StandState.inventory
    history,      \* StandState._history
    seed,         \* RNG.seed
    pc,           \* "idle", "runDays" at the head of the loop of runDays, or
                  \* "salesLoop" in a sales loop that has no exit
    d,            \* runDays: the loop variable (0 outside runDays)
    days,         \* runDays: the argument
    event,        \* what the last call did
    ret,          \* value returned by the last Inventory call
    invocations,  \* number of executeDay calls so far
    entry,        \* the stand, the generator and the arguments when
                  \* executeDay was last entered
    served,       \* roll and outcome of each customer processed in the last
                  \* settled day
    brewedWith,   \* cupsPerPitcher of the recipe of the last successful brew
    closing,      \* the inventory when the last sales loop ended, before the
                  \* night
    arg,          \* the recipe given to the last direct Inventory call
    attempts,     \* tryBrewPitcher calls made by the last direct pourCup call
    lastSoldOut   \* GreedyStrategy.lastSoldOut of the one built-in policy

vars == <<cash, recipe, pricePerCup, inventory, history, seed, pc, d, days,
          event, ret, invocations, entry, served, brewedWith, closing, arg,
          attempts, lastSoldOut>>

\* the StandState as one value
Stand ==
    [cash |-> cash, recipe |-> recipe, pricePerCup |-> pricePerCup,
     inventory |-> inventory, history |-> history]

\* new StandState(cash), new Simulation(stand, seed)
InitOf(cashes, words) ==
    /\ cash \in cashes
    /\ recipe = DefaultRecipe
    /\ pricePerCup = 25
    /\ inventory = EmptyInventory
    /\ history = <<>>
    /\ seed \in words
    /\ pc = "idle"
    /\ d = 0
    /\ days = 0
    /\ event = "new"
    /\ ret = TRUE
    /\ invocations = 0
    /\ entry = [stand |-> Stand, seed |-> seed, loopSeed |-> seed,
                plan |-> Undefined, weather |-> Undefined,
                priceList |-> Undefined]
    /\ served = <<>>
    /\ brewedWith = 0
    /\ closing = EmptyInventory
    /\ arg = DefaultRecipe
    /\ attempts = 0
    /\ lastSoldOut = FALSE

Init == InitOf(StartingCash, {ToWord(s) : s \in Seeds})

(***************************************************************************)
(* Simulation.executeDay                                                   *)
(***************************************************************************)
\* supplyCost of executeDay, in mills
supplyCost(order, priceList) ==
    order.lemons * priceList.lemonPrice
    + order.sugarCups * priceList.sugarPrice
    + order.iceCubes * priceList.icePrice
    + order.cups * priceList.cupPrice

\* +v.toFixed(2) on mills: rounded to whole cents, half away from zero
toFixed2(v) ==
    IF v >= 0 THEN ((v + 5) \div 10) * 10 ELSE -(((-v + 5) \div 10) * 10)

\* a settlement that pays for the order before it checks the funds
SettlementPaysFirst(st, plan, priceList) ==
    LET cost == supplyCost(plan.order, priceList)
        paid == [st EXCEPT
                  !.cash = @ - cost,
                  !.inventory = add(@, plan.order.lemons, plan.order.sugarCups,
                                    plan.order.iceCubes, plan.order.cups),
                  !.pricePerCup = plan.setPricePerCup,
                  !.recipe = plan.recipe]
    IN  [thrown |-> cost > st.cash, stand |-> paid]

\* a settlement that pays and buys but goes on selling at the previous price
SettlementKeepsPrice(st, plan, priceList) ==
    LET cost == supplyCost(plan.order, priceList)
    IN  IF cost > st.cash
        THEN [thrown |-> TRUE, stand |-> st]
        ELSE [thrown |-> FALSE,
              stand |-> [st EXCEPT
                  !.cash = @ - cost,
                  !.inventory = add(@, plan.order.lemons, plan.order.sugarCups,
                                    plan.order.iceCubes, plan.order.cups),
                  !.recipe = plan.recipe]]

\* a settlement whose funds check tolerates a shortfall of a dollar
SettlementLooseTolerance(st, plan, priceList) ==
    LET cost == supplyCost(plan.order, priceList)
    IN  IF cost > st.cash + 1000
        THEN [thrown |-> TRUE, stand |-> st]
        ELSE [thrown |-> FALSE,
              stand |-> [st EXCEPT
                  !.cash = @ - cost,
                  !.inventory = add(@, plan.order.lemons, plan.order.sugarCups,
                                    plan.order.iceCubes, plan.order.cups),
                  !.pricePerCup = plan.setPricePerCup,
                  !.recipe = plan.recipe]]

\* executeDay up to the sales loop: the funds check, then the payment, the
\* purchase and the adoption of the plan.  `thrown' is the Error of the check.
Settlement(st, plan, priceList) ==
    LET cost == supplyCost(plan.order, priceList)
    IN  IF cost > st.cash
        THEN [thrown |-> TRUE, stand |-> st]
        ELSE [thrown |-> FALSE,
              stand |-> [st EXCEPT
                  !.cash = @ - cost,
                  !.inventory = add(@, plan.order.lemons, plan.order.sugarCups,
                                    plan.order.iceCubes, plan.order.cups),
                  !.pricePerCup = plan.setPricePerCup,
                  !.recipe = plan.recipe]]

\* the body of the sales loop for one customer, on loop state l =
\* [inv, seed, i, cupsSold, served, brewedWith, halted]
Customer(l, rcp, price, weather, x, buys, p) ==
    [inv |-> IF buys THEN p.inv ELSE l.inv,
     seed |-> x,
     i |-> l.i + 1,
     cupsSold |-> IF buys /\ p.ret THEN l.cupsSold + 1 ELSE l.cupsSold,
     served |-> Append(l.served,
                       [roll |-> x,
                        outcome |-> IF ~buys THEN "nobuy"
                                    ELSE IF p.ret THEN "sold" ELSE "stockout"]),
     brewedWith |-> IF buys /\ p.brewed THEN rcp.cupsPerPitcher ELSE l.brewedWith,
     halted |-> buys /\ ~p.ret]

\* a sales loop that a stock-out does not end
ContinuesAfterStockOut(l, customers) == l.i < customers

\* the sales loop goes on: no `break' was taken and i < customers
Continues(l, customers) == ~l.halted /\ l.i < customers

RECURSIVE SalesLoop(_, _, _, _, _)
SalesLoop(l, customers, rcp, price, weather) ==
    IF ~Continues(l, customers) THEN l
    ELSE LET x == nextUint(l.seed)
             buys == Buys(x, buyProbability(price, weather))
         IN  SalesLoop(Customer(l, rcp, price, weather, x, buys,
                                pourCup(l.inv, rcp)),
                       customers, rcp, price, weather)

\* a history that puts the new result first
pushHistoryFirst(h, r) == <<r>> \o h

\* StandState.pushHistory
pushHistory(h, r) == Append(h, r)

\* the DayResult built at the end of executeDay
DayResult(dayIndex, weather, priceList, plan, customers, cupsSold, grossRevenue, cost, inv) ==
    [day |-> dayIndex, weather |-> weather, prices |-> priceList, plan |-> plan,
     customers |-> customers, cupsSold |-> cupsSold,
     grossRevenue |-> toFixed2(grossRevenue),
     supplyCost |-> toFixed2(cost),
     netProfit |-> toFixed2(grossRevenue - cost),
     leftover |-> [lemons |-> inv.lemons, sugar |-> inv.sugar, ice |-> inv.ice,
                   cups |-> inv.cups]]

\* executeDay after settlement: traffic, sales loop, revenue, spoilage, record.
\* st is the stand after settlement, s the generator state.  With Infinity
\* customers of whom none ever buys, the sales loop has no exit (`endless'):
\* no `break' is taken and i < customers stays true.  (With Infinity customers
\* and a price below NeverBuys the loop ends at the first stock-out.)
Trade(st, plan, dayIndex, weather, priceList, s, bw) ==
    LET t == customerTraffic(s, weather)
        endless == t.customers = Infinity /\ NeverBuys(st.pricePerCup)
        l0 == [inv |-> st.inventory, seed |-> t.seed, i |-> 0,
               cupsSold |-> 0, served |-> <<>>, brewedWith |-> bw,
               halted |-> FALSE]
        l == IF endless THEN l0
             ELSE SalesLoop(l0, t.customers, st.recipe, st.pricePerCup, weather)
        grossRevenue == l.cupsSold * st.pricePerCup * 10
        inv == meltIce(l.inv, 100)
    IN  [endless |-> endless,
         stand |-> IF endless THEN st ELSE [st EXCEPT
            !.cash = @ + grossRevenue,
            !.inventory = inv,
            !.history = pushHistory(@, DayResult(dayIndex, weather, priceList,
                            plan, t.customers, l.cupsSold, grossRevenue,
                            supplyCost(plan.order, priceList), inv))],
         seed |-> l.seed, loopSeed |-> t.seed, served |-> l.served,
         brewedWith |-> l.brewedWith, closing |-> l.inv]

\* executeDay(plan, day, weather, prices), entered with the generator at s;
\* `loop' says the call comes from the loop of runDays
ExecuteDay(plan, dayIndex, weather, priceList, s, loop) ==
    \E st \in {Settlement(Stand, plan, priceList)} :
      /\ invocations' = invocations + 1
      /\ ret' = TRUE
      /\ UNCHANGED <<arg, attempts>>
      /\ IF st.thrown
         THEN /\ event' = "InsufficientFunds"
              /\ cash' = st.stand.cash
              /\ recipe' = st.stand.recipe
              /\ pricePerCup' = st.stand.pricePerCup
              /\ inventory' = st.stand.inventory
              /\ history' = st.stand.history
              /\ seed' = s
              /\ entry' = [stand |-> Stand, seed |-> s, loopSeed |-> s,
                            plan |-> plan, weather |-> weather,
                            priceList |-> priceList]
              /\ pc' = "idle"
              /\ d' = 0
              /\ days' = 0
              /\ UNCHANGED <<served, brewedWith, closing>>
         ELSE \E r \in {Trade(st.stand, plan, dayIndex, weather, priceList, s,
                              brewedWith)} :
              /\ event' = IF r.endless THEN "salesLoop" ELSE "committed"
              /\ cash' = r.stand.cash
              /\ recipe' = r.stand.recipe
              /\ pricePerCup' = r.stand.pricePerCup
              /\ inventory' = r.stand.inventory
              /\ history' = r.stand.history
              /\ seed' = r.seed
              /\ entry' = [stand |-> Stand, seed |-> s,
                            loopSeed |-> r.loopSeed, plan |-> plan,
                            weather |-> weather, priceList |-> priceList]
              /\ served' = r.served
              /\ brewedWith' = r.brewedWith
              /\ closing' = r.closing
              /\ pc' = IF r.endless THEN "salesLoop"
                       ELSE IF loop THEN "runDays" ELSE "idle"
              /\ d' = IF r.endless THEN d ELSE IF loop THEN d + 1 ELSE 0
              /\ UNCHANGED days

(***************************************************************************)
(* Simulation.runDays, runSingleDay, runDayManual                          *)
(***************************************************************************)
\* runDays(n, strategy) is called
RunDays(n) ==
    /\ pc = "idle"
    /\ invocations + n <= MaxDays
    /\ pc' = "runDays"
    /\ d' = 1
    /\ days' = n
    /\ event' = "runDays"
    /\ ret' = TRUE
    /\ UNCHANGED <<cash, recipe, pricePerCup, inventory, history, seed,
                   invocations, entry, served, brewedWith, closing, arg,
                   attempts, lastSoldOut>>

\* runSingleDay(strategy, d): forecast, prices, then strategy.planDay, which
\* may answer any plan, then executeDay
RunSingleDayOf(plans) ==
    /\ pc = "runDays"
    /\ d <= days
    /\ \E f \in {forecast(seed)} :
       \E p \in {prices(f.seed)} :
       \E plan \in plans :
          ExecuteDay(plan, d, f.weather, p.prices, p.seed, TRUE)
    /\ UNCHANGED lastSoldOut

RunSingleDay == RunSingleDayOf(Plans)

\* the loop of runDays ends and runDays returns the history
RunDaysReturn ==
    /\ pc = "runDays"
    /\ d > days
    /\ pc' = "idle"
    /\ d' = 0
    /\ days' = 0
    /\ event' = "return"
    /\ ret' = TRUE
    /\ UNCHANGED <<cash, recipe, pricePerCup, inventory, history, seed,
                   invocations, entry, served, brewedWith, closing, arg,
                   attempts, lastSoldOut>>

\* runDayManual(day, plan, weather?, prices?) with any plan
RunDayManualOf(plans, dayIndex, weather, priceList) ==
    /\ pc = "idle"
    /\ invocations < MaxDays
    /\ \E f \in {IF weather = Undefined THEN forecast(seed)
                 ELSE [seed |-> seed, weather |-> weather]} :
       \E p \in {IF priceList = Undefined THEN prices(f.seed)
                 ELSE [seed |-> f.seed, prices |-> priceList]} :
       \E plan \in plans :
          ExecuteDay(plan, dayIndex, f.weather, p.prices, p.seed, FALSE)
    /\ UNCHANGED lastSoldOut

RunDayManual(dayIndex, weather, priceList) ==
    RunDayManualOf(Plans, dayIndex, weather, priceList)

Next ==
    \/ \E n \in 1..MaxDays : RunDays(n)
    \/ RunSingleDay
    \/ RunDaysReturn
    \/ \E weather \in PinnedWeather \cup {Undefined},
          priceList \in PinnedPrices \cup {Undefined} :
          RunDayManual(Len(history) + 1, weather, priceList)

Spec == Init /\ [][Next]_vars

(***************************************************************************)
(* GreedyStrategy                                                          *)
(***************************************************************************)
\* GreedyStrategy.roughDemand
roughDemand(weather) ==
    CASE weather.kind = "Hot" -> 85
      [] weather.kind = "Mild" -> 60
      [] weather.kind = "Cold" -> 35
      [] weather.kind = "Storm" -> 15

\* Math.floor(demandHint * this.targetServiceLevel), the level being 0.8
desiredCups(weather) == (roughDemand(weather) * 8) \div 10

\* the recipe planDay decides on
GreedyRecipe(weather) ==
    Recipe(6, IF weather.kind = "Cold" THEN 5 ELSE 4,
           IF weather.kind = "Hot" THEN 5 ELSE 4, 12)

\* Math.ceil(m / n)
Ceil(m, n) == (m + n - 1) \div n

\* +(price * factor).toFixed(2), price in cents and the factor in percent:
\* rounded half up, but for 0.50 * 0.97 and 0.95 * 1.10, whose doubles lie
\* below the half
TimesPercent(price, percent) ==
    IF (price = 50 /\ percent = 97) \/ (price = 95 /\ percent = 110)
    THEN (price * percent) \div 100
    ELSE (price * percent + 50) \div 100

\* the price planDay sets: the stand's on day 1, later 10 percent up after an
\* expected sell-out and 3 percent down otherwise, kept within 0.05 .. 1.25
GreedyPrice(price, dayIndex, soldOut) ==
    IF dayIndex > 1
    THEN Max(5, Min(125, TimesPercent(price, IF soldOut THEN 110 ELSE 97)))
    ELSE price

\* a purchase that rounds the affordable quantity up
tryBuyRoundsUp(budget, unitNeed, unitPrice) ==
    IF unitNeed <= 0 THEN 0
    ELSE Max(0, Min(unitNeed, Ceil(budget, unitPrice)))

\* tryBuy of planDay on the cash left (budget), without the deduction
tryBuy(budget, unitNeed, unitPrice) ==
    IF unitNeed <= 0 THEN 0
    ELSE Max(0, Min(unitNeed, budget \div unitPrice))

\* the order of planDay: cups, ice, lemons, sugar, each bought from the cash
\* the purchases before it have left
GreedyOrder(budget, inv, weather, priceList) ==
    LET r == GreedyRecipe(weather)
        desired == desiredCups(weather)
        pitchersNeeded == Ceil(Max(0, desired), r.cupsPerPitcher)
        needLemons == Max(0, pitchersNeeded * r.lemonsPerPitcher - inv.lemons)
        needSugar == Max(0, pitchersNeeded * r.sugarCupsPerPitcher - inv.sugar)
        needCups == Max(0, desired - inv.cups)
        needIce == Max(0, desired * r.iceCubesPerCup - inv.ice)
        cups == tryBuy(budget, needCups, priceList.cupPrice)
        cash1 == budget - cups * priceList.cupPrice
        iceCubes == tryBuy(cash1, needIce, priceList.icePrice)
        cash2 == cash1 - iceCubes * priceList.icePrice
        lemons == tryBuy(cash2, needLemons, priceList.lemonPrice)
        cash3 == cash2 - lemons * priceList.lemonPrice
        sugarCups == tryBuy(cash3, needSugar, priceList.sugarPrice)
    IN  PurchaseOrder(lemons, sugarCups, iceCubes, cups)

\* GreedyStrategy.estimateCupsPossibleAfter
estimateCupsPossibleAfter(order, inv, r) ==
    LET cups == inv.cups + order.cups
        iceCups == (inv.ice + order.iceCubes) \div r.iceCubesPerCup
        lemonsPitchers == (inv.lemons + order.lemons) \div r.lemonsPerPitcher
        sugarPitchers == (inv.sugar + order.sugarCups) \div r.sugarCupsPerPitcher
        pitchers == Min(lemonsPitchers, sugarPitchers)
    IN  Min(cups, Min(iceCups, pitchers * r.cupsPerPitcher))

\* GreedyStrategy.planDay on stand st, with this.lastSoldOut = soldOut: the
\* plan returned and the lastSoldOut it leaves
planDay(st, weather, priceList, dayIndex, soldOut) ==
    LET order == GreedyOrder(st.cash, st.inventory, weather, priceList)
        r == GreedyRecipe(weather)
    IN  [plan |-> DayPlan(GreedyPrice(st.pricePerCup, dayIndex, soldOut),
                          order, r),
         lastSoldOut |-> estimateCupsPossibleAfter(order, st.inventory, r)
                           < desiredCups(weather)]

\* runSingleDay(strategy, d) with the built-in policy
RunSingleDayGreedy ==
    /\ pc = "runDays"
    /\ d <= days
    /\ \E f \in {forecast(seed)} :
       \E p \in {prices(f.seed)} :
       \E g \in {planDay(Stand, f.weather, p.prices, d, lastSoldOut)} :
          /\ ExecuteDay(g.plan, d, f.weather, p.prices, p.seed, TRUE)
          /\ lastSoldOut' = g.lastSoldOut

\* starting cash of the stands the built-in policy runs: nothing, one
\* dollar, three dollars, ten dollars
GreedyCash == {0, 1000, 3000, 10000}

InitGreedy == InitOf(GreedyCash, {ToWord(s) : s \in Seeds})

\* runDays with the built-in policy, between manual days of any plan
NextGreedy ==
    \/ \E n \in 1..MaxDays : RunDays(n)
    \/ RunSingleDayGreedy
    \/ RunDaysReturn
    \/ RunDayManual(Len(history) + 1, Undefined, Undefined)

SpecGreedy == InitGreedy /\ [][NextGreedy]_vars

(***************************************************************************)
(* The same program from seeds that lead the generator to 0xffffffff       *)
(***************************************************************************)
\* 0xe6d4e4c3, 0xe063f306, 0x5e6cfce7: the seeds whose 7th, 2nd and 1st word
\* drawn is 0xffffffff
RareSeeds == {Word(59092, 58563), Word(57443, 62214), Word(24172, 64743)}

RarePlans ==
    { DayPlan(25, PurchaseOrder(6, 4, 48, 12), DefaultRecipe),
      DayPlan(500, PurchaseOrder(6, 4, 48, 12), DefaultRecipe),
      DayPlan(25, PurchaseOrder(0, 0, 0, 1000), DefaultRecipe) }

InitRare == InitOf({10000}, RareSeeds)

NextRare ==
    \/ \E n \in 1..MaxDays : RunDays(n)
    \/ RunSingleDayOf(RarePlans)
    \/ RunDaysReturn
    \/ \E weather \in PinnedWeather \cup {Undefined},
          priceList \in PinnedPrices \cup {Undefined} :
          RunDayManualOf(RarePlans, Len(history) + 1, weather, priceList)

SpecRare == InitRare /\ [][NextRare]_vars

(***************************************************************************)
(* Direct calls of the Inventory methods on stand.inventory                *)
(***************************************************************************)
\* quantities a caller may add at once, per ingredient
AddQuantities == {0, 1, 2}

\* recipes a caller may pass
InventoryRecipes ==
    {SmallRecipe, ZeroYieldRecipe, Recipe(2, 1, 2, 3), Recipe(0, 2, 0, 1)}

\* percentLost arguments of meltIce: 0, 0.5 and the default 1.0
MeltFractions == {0, 50, 100}

Called(name, result) ==
    /\ pc = "idle"
    /\ event' = name
    /\ ret' = result
    /\ UNCHANGED <<cash, recipe, pricePerCup, history, seed, pc, d, days,
                   invocations, entry, served, closing, lastSoldOut>>

\* stand.inventory.add(lemons, sugar, ice, cups)
Add(lemons, sugar, ice, cups) ==
    /\ inventory.lemons + lemons <= MaxStock
    /\ inventory.sugar + sugar <= MaxStock
    /\ inventory.ice + ice <= MaxStock
    /\ inventory.cups + cups <= MaxStock
    /\ inventory' = add(inventory, lemons, sugar, ice, cups)
    /\ Called("add", TRUE)
    /\ UNCHANGED <<brewedWith, arg, attempts>>

\* stand.inventory.meltIce(percentLost)
MeltIce(percentLost) ==
    /\ inventory' = meltIce(inventory, percentLost)
    /\ Called("meltIce", TRUE)
    /\ UNCHANGED <<brewedWith, arg, attempts>>

\* stand.inventory.tryBrewPitcher(r)
TryBrewPitcher(r) ==
    \E b \in {tryBrewPitcher(inventory, r)} :
      /\ inventory' = b.inv
      /\ Called("tryBrewPitcher", b.ret)
      /\ brewedWith' = IF b.ret THEN r.cupsPerPitcher ELSE brewedWith
      /\ arg' = r
      /\ UNCHANGED attempts

\* stand.inventory.pourCup(r)
PourCup(r) ==
    \E p \in {pourCup(inventory, r)} :
      /\ inventory' = p.inv
      /\ Called("pourCup", p.ret)
      /\ brewedWith' = IF p.brewed THEN r.cupsPerPitcher ELSE brewedWith
      /\ arg' = r
      /\ attempts' = IF p.tried THEN 1 ELSE 0

NextInventory ==
    \/ \E lemons \in AddQuantities, sugar \in AddQuantities,
          ice \in AddQuantities, cups \in AddQuantities :
          Add(lemons, sugar, ice, cups)
    \/ \E percentLost \in MeltFractions : MeltIce(percentLost)
    \/ \E r \in InventoryRecipes : TryBrewPitcher(r)
    \/ \E r \in InventoryRecipes : PourCup(r)

\* a stand as runDemo constructs it, before any day is run
InitInventory ==
    /\ Init
    /\ cash = 10000
    /\ seed = ToWord(2025)

SpecInventory == InitInventory /\ [][NextInventory]_vars

(***************************************************************************)
(* Properties of the engine                                                *)
(***************************************************************************)
\* the last call was one day (an iteration of runDays or a runDayManual)
DayEnded == event \in {"committed", "InsufficientFunds"}

\* C1: a day whose order costs more than the cash at hand raises
\* InsufficientFunds (and no other day does), and then cash, the four
\* ingredient counts, the cups left in the pitcher, the recipe, the price and
\* the history are what they were when the day was entered, in runDays and in
\* runDayManual alike.
C1_InsufficientFundsNoMutation ==
    DayEnded =>
      /\ event = "InsufficientFunds"
           <=> supplyCost(entry.plan.order, entry.priceList) > entry.stand.cash
      /\ event = "InsufficientFunds" => Stand = entry.stand

\* a day was refused although the stand held cash, and its order would have
\* added cups
C1_Witness ==
    /\ event = "InsufficientFunds"
    /\ entry.plan.order.cups > 0
    /\ cash > 0
    /\ Stand = entry.stand

\* history' is history with exactly one DayResult appended at the end
Grows ==
    /\ Len(history') = Len(history) + 1
    /\ SubSeq(history', 1, Len(history)) = history

LastResult == history[Len(history)]

\* C3: after every completed day, cash equals the cash at entry minus the
\* recorded supplyCost plus the recorded grossRevenue, both sides taken to 2
\* decimals.
C3_CashConservation ==
    event = "committed" =>
      toFixed2(cash)
        = toFixed2(entry.stand.cash - LastResult.supplyCost
                     + LastResult.grossRevenue)

\* C4: whatever was added, brewed, poured and melted, with whatever recipe of
\* non-negative fields (a recipe of 0 cups per pitcher included), and after
\* whatever days, the lemons, sugar, ice and cups counts and the cups left in
\* the pitcher are all >= 0.
C4_NonNegative ==
    /\ inventory.lemons >= 0
    /\ inventory.sugar >= 0
    /\ inventory.ice >= 0
    /\ inventory.cups >= 0
    /\ inventory.cupsLeftInPitcher >= 0

\* the last customer processed met a stock-out
StockOut == Len(served) > 0 /\ served[Len(served)].outcome = "stockout"

\* C5: in the sales loop of a day the customers are processed in order; the
\* first buying customer whose pourCup fails is the last customer processed
\* (no later roll is drawn, no later cup is poured, so cupsSold is the number
\* sold before it), while a customer who does not buy does not end the loop:
\* without a stock-out every customer of the day is processed.
C5_StockOutEndsSales ==
    event = "committed" =>
      /\ Len(served) <= LastResult.customers
      /\ \A i \in 1..(Len(served) - 1) : served[i].outcome # "stockout"
      /\ LastResult.cupsSold
           = Cardinality({i \in 1..Len(served) : served[i].outcome = "sold"})
      /\ seed = IF served = <<>> THEN entry.loopSeed
                ELSE served[Len(served)].roll
      /\ ~StockOut => Len(served) = LastResult.customers

\* a day ended by a stock-out with customers left, after a sale and after a
\* customer who did not buy
C5_Witness ==
    /\ event = "committed"
    /\ StockOut
    /\ Len(served) < LastResult.customers
    /\ \E i, j \in 1..Len(served) :
          served[i].outcome = "sold" /\ served[j].outcome = "nobuy"
    /\ LastResult.cupsSold > 0

\* C6: at the end of every completed day the inventory holds no ice and the
\* DayResult reports no ice left over, whatever was ordered, brewed, sold and
\* left of the rest; so every day is entered without ice of an earlier day.
C6_IceSpoils ==
    /\ event = "committed" => inventory.ice = 0 /\ LastResult.leftover.ice = 0
    /\ \A i \in 1..Len(history) : history[i].leftover.ice = 0
    /\ DayEnded => entry.stand.inventory.ice = 0

\* a day was completed in which ice was bought and not all of it used, with
\* lemons, sugar and cups left over
C6_Witness ==
    /\ event = "committed"
    /\ entry.plan.order.iceCubes
         > LastResult.cupsSold * entry.plan.recipe.iceCubesPerCup
    /\ LastResult.cupsSold > 0
    /\ LastResult.leftover.lemons > 0
    /\ LastResult.leftover.sugar > 0
    /\ LastResult.leftover.cups > 0
    /\ inventory.ice = 0

\* C10: in every reachable state the cups left in the pitcher are at most the
\* cupsPerPitcher of the recipe the pitcher was brewed with (0 when nothing
\* was ever brewed), also after a later day's plan has replaced the stand's
\* recipe.
C10_PitcherWithinYield ==
    inventory.cupsLeftInPitcher <= brewedWith

\* a second day was completed under a new recipe while the pitcher still held
\* more cups of the first day's recipe than the new recipe yields
C10_Witness ==
    /\ event = "committed"
    /\ Len(history) = 2
    /\ history[1].plan.recipe # recipe
    /\ brewedWith = history[1].plan.recipe.cupsPerPitcher
    /\ inventory.cupsLeftInPitcher > recipe.cupsPerPitcher
    /\ inventory.cupsLeftInPitcher > 0

\* what the last completed day was entered with
Carried == entry.stand.inventory

C13_AbortKeepsGenerator ==
    [][event' = "InsufficientFunds" /\ invocations' = invocations + 1
         => seed' = seed]_vars

\* executeDay was entered by the last call
DayEntered == event \in {"committed", "InsufficientFunds", "salesLoop"}

\* C14: a day whose order costs no more than the cash at hand raises nothing,
\* whatever else holds (nothing ordered, nothing in stock, nobody buying, a
\* stock-out at the first buyer): it completes and appends its DayResult, with
\* between 0 and `customers' cups sold.
C14_OnlySettlementFails ==
    ( /\ DayEntered
      /\ supplyCost(entry.plan.order, entry.priceList) <= entry.stand.cash )
    => /\ event = "committed"
       /\ history = Append(entry.stand.history, LastResult)
       /\ LastResult.plan = entry.plan
       /\ LastResult.cupsSold >= 0
       /\ LastResult.cupsSold <= LastResult.customers

\* the least of three numbers
Min3(a, b, c) == Min(a, Min(b, c))

\* how many times n goes into m (Infinity times when n = 0)
Times(m, n) == IF n = 0 THEN Infinity ELSE m \div n

\* the cups a day can sell from inventory inv under recipe r: bounded by the
\* cups, by the ice, and by the pitcher plus the pitchers lemons and sugar allow
Capacity(inv, r) ==
    LET pitchers == Min(Times(inv.lemons, r.lemonsPerPitcher),
                        Times(inv.sugar, r.sugarCupsPerPitcher))
    IN  Min3(inv.cups,
             Times(inv.ice, r.iceCubesPerCup),
             IF pitchers = Infinity THEN Infinity
             ELSE inv.cupsLeftInPitcher + r.cupsPerPitcher * pitchers)

\* the inventory of the last day after its settlement
Settled ==
    add(Carried, entry.plan.order.lemons, entry.plan.order.sugarCups,
        entry.plan.order.iceCubes, entry.plan.order.cups)

\* C15: in every completed day the cups sold are at most the customers and at
\* most the capacity of the inventory after settlement: the least of the cups,
\* the ice over iceCubesPerCup, and the cups left in the pitcher plus
\* cupsPerPitcher for each pitcher the lemons and the sugar allow.
C15_SellableCapacity ==
    event = "committed" =>
      /\ LastResult.cupsSold <= LastResult.customers
      /\ LastResult.cupsSold <= Capacity(Settled, entry.plan.recipe)

\* the step is a day of runDays that ran to its end
AutomaticDay == pc = "runDays" /\ event' = "committed"

\* the word drawn last before roll i of the rolls log, x being the word drawn
\* last before the sales loop
RollBefore(log, i, x) == IF i = 1 THEN x ELSE log[i - 1].roll

\* C16: an automatic day consumes the one random stream in a fixed order.
\* With x1, ..., x8 the eight words the generator yields from its state at the
\* start of the day: the weather is the forecast made of x1 (bucket) and x2
\* (temperature); the prices are made of x3 (lemons), x4 (sugar), x5 (ice) and
\* x6 (cups); the traffic is the sample made of x7 and x8; the customers
\* processed roll the words that follow x8, one each and in order; no more
\* customers are processed than came, fewer only after a stock-out; and the
\* generator is left at the last word drawn.
C16_DrawOrder ==
    [][AutomaticDay =>
         LET x1 == nextUint(seed)
             x2 == nextUint(x1)
             x3 == nextUint(x2)
             x4 == nextUint(x3)
             x5 == nextUint(x4)
             x6 == nextUint(x5)
             x7 == nextUint(x6)
             x8 == nextUint(x7)
             f == forecast(seed)
             t == customerTraffic(x6, f.weather)
         IN  /\ f.seed = x2
             /\ LastResult'.weather = f.weather
             /\ LastResult'.prices = PriceList(vary(50, 25, x3), vary(70, 25, x4),
                                               vary(10, 30, x5), vary(20, 25, x6))
             /\ t.seed = x8
             /\ LastResult'.customers = t.customers
             /\ \A i \in 1..Len(served') :
                   served'[i].roll = nextUint(RollBefore(served', i, x8))
             /\ Len(served') <= t.customers
             /\ Len(served') < t.customers => StockOut'
             /\ seed' = RollBefore(served', Len(served') + 1, x8)
    ]_vars

\* an automatic day ended by a stock-out, after several rolls and with
\* customers left
C16_Witness ==
    /\ event = "committed"
    /\ pc = "runDays"
    /\ StockOut
    /\ Len(served) > 1
    /\ Len(served) < LastResult.customers

\* C17: runDays(N, policy) terminates.  No day of runDays stays in its sales
\* loop; at the head of the loop with loop variable d the last d - 1 results
\* of the history are those of days 1, ..., d - 1 in that order, one per policy
\* answer, so that N are appended when the loop ends; and a day that fails
\* settlement appends nothing and leaves the earlier results in the history.
C17_RunDaysTerminates ==
    /\ ~(pc = "salesLoop" /\ d > 0)
    /\ pc = "runDays" =>
          /\ d - 1 <= Len(history)
          /\ \A k \in 1..(d - 1) : history[Len(history) - (d - 1) + k].day = k
    /\ event = "InsufficientFunds" => history = entry.stand.history

\* the temperatures of a category of weather
TemperatureRange(kind) ==
    CASE kind = "Storm" -> 65..75
      [] kind = "Cold" -> 55..65
      [] kind = "Mild" -> 70..84
      [] kind = "Hot" -> 85..100

\* C18: uniform(min, max) stays below max and int(min, max) never returns
\* max + 1: the temperature of the weather of every day entered, forecast or
\* given, lies within the range of its category.
C18_TemperatureInRange ==
    DayEntered => entry.weather.tempF \in TemperatureRange(entry.weather.kind)

\* n batches of cupsPerPitcher cups cover the cups sold beyond the cups the
\* pitcher carried over
Covers(n) ==
    n * entry.plan.recipe.cupsPerPitcher
      >= LastResult.cupsSold - Carried.cupsLeftInPitcher

\* n batches were brewed in the last day: lemons and sugar after the sales are
\* those carried over plus those ordered less those of n batches
BatchesBrewed(n) ==
    /\ closing.lemons = Carried.lemons + entry.plan.order.lemons
                          - n * entry.plan.recipe.lemonsPerPitcher
    /\ closing.sugar = Carried.sugar + entry.plan.order.sugarCups
                         - n * entry.plan.recipe.sugarCupsPerPitcher

OrderCost ==
    entry.plan.order.lemons * entry.priceList.lemonPrice
    + entry.plan.order.sugarCups * entry.priceList.sugarPrice
    + entry.plan.order.iceCubes * entry.priceList.icePrice
    + entry.plan.order.cups * entry.priceList.cupPrice

\* C20: a day that settles pays and stocks the order and adopts the plan's
\* price and recipe before its sales.  At the end of the day the price and the
\* recipe are the plan's; the cash is that at entry less the cost of the order
\* plus the cups sold at the plan's price, which is the revenue recorded; each
\* customer bought or not by the buy probability of the plan's price; and ice,
\* lemons and sugar after the sales are those at entry plus those ordered
\* less the plan's recipe's ice for each cup sold and its lemons and sugar for
\* each batch brewed.
C20_SettlementBeforeSales ==
    event = "committed" =>
      /\ pricePerCup = entry.plan.setPricePerCup
      /\ recipe = entry.plan.recipe
      /\ cash = entry.stand.cash - OrderCost
                  + LastResult.cupsSold * entry.plan.setPricePerCup * 10
      /\ LastResult.grossRevenue
            = LastResult.cupsSold * entry.plan.setPricePerCup * 10
      /\ \A i \in 1..Len(served) :
            served[i].outcome # "nobuy"
              <=> Buys(served[i].roll,
                       buyProbability(entry.plan.setPricePerCup, entry.weather))
      /\ closing.ice = Carried.ice + entry.plan.order.iceCubes
                         - LastResult.cupsSold * entry.plan.recipe.iceCubesPerCup
      /\ closing.cups = Carried.cups + entry.plan.order.cups
                          - LastResult.cupsSold
      /\ \E n \in 0..LastResult.cupsSold : BatchesBrewed(n)

\* a day entered with nothing in stock and with another price and another
\* recipe than the plan's, that sold cups of the supplies it bought
C20_Witness ==
    /\ event = "committed"
    /\ Carried = EmptyInventory
    /\ entry.stand.pricePerCup # entry.plan.setPricePerCup
    /\ entry.stand.recipe # entry.plan.recipe
    /\ entry.plan.order.cups > 0
    /\ LastResult.cupsSold > 0
    /\ \E i \in 1..Len(served) : served[i].outcome = "nobuy"

\* the step is a day of runDays, which the built-in policy plans
GreedyDay == pc = "runDays" /\ invocations' = invocations + 1

C22_CashNeverNegative == cash >= 0

\* a day committed where another was aborted, whose order left less cash
\* than the cheapest cup costs
C22_Witness ==
    /\ event = "committed"
    /\ invocations > Len(history)
    /\ OrderCost > 0
    /\ entry.stand.cash - OrderCost < 15

(***************************************************************************)
(* Properties of the Inventory                                             *)
(***************************************************************************)
\* the inventory can brew a pitcher of r
CanBrew(inv, r) ==
    inv.lemons >= r.lemonsPerPitcher /\ inv.sugar >= r.sugarCupsPerPitcher

\* inv after a pitcher of r was brewed
Brewed(inv, r) ==
    [inv EXCEPT !.lemons = @ - r.lemonsPerPitcher,
                !.sugar = @ - r.sugarCupsPerPitcher,
                !.cupsLeftInPitcher = r.cupsPerPitcher]

\* inv after one cup of r was served from the pitcher
Served(inv, r) ==
    [inv EXCEPT !.cups = @ - 1, !.ice = @ - r.iceCubesPerCup,
                !.cupsLeftInPitcher = @ - 1]

\* C7: pourCup called with an empty pitcher, a cup and enough ice calls
\* tryBrewPitcher exactly once; if lemons or sugar do not suffice it returns
\* false and lemons, sugar, ice, cups and the cups left in the pitcher are
\* unchanged; if the brew succeeds, lemons and sugar drop by one pitcher's
\* amounts and the cup is served from the new pitcher.
C7_BatchTransition ==
    [][ ( /\ event' = "pourCup"
          /\ inventory.cupsLeftInPitcher = 0
          /\ inventory.cups > 0
          /\ inventory.ice >= arg'.iceCubesPerCup )
        => /\ attempts' = 1
           /\ ~CanBrew(inventory, arg') => ret' = FALSE /\ inventory' = inventory
           /\ CanBrew(inventory, arg') =>
                /\ ret' = TRUE
                /\ inventory' = Served(Brewed(inventory, arg'), arg') ]_vars

\* pourCup failed at its one brew: a cup and ice were there, the pitcher was
\* empty, the lemons sufficed and the sugar did not
C7_Witness ==
    /\ event = "pourCup"
    /\ attempts = 1
    /\ ret = FALSE
    /\ inventory.cupsLeftInPitcher = 0
    /\ inventory.cups > 0
    /\ inventory.ice >= arg.iceCubesPerCup
    /\ arg.iceCubesPerCup > 0
    /\ inventory.lemons >= arg.lemonsPerPitcher
    /\ inventory.sugar < arg.sugarCupsPerPitcher

\* C8: pourCup fails and changes nothing when there is no cup or too little
\* ice, and then brews nothing even with an empty pitcher and lemons and sugar
\* at hand; when it succeeds it takes exactly 1 cup, iceCubesPerCup ice and 1
\* cup of the pitcher it serves from, and changes lemons and sugar only if it
\* had to brew.
C8_PourCupFrame ==
    [][ event' = "pourCup" =>
          /\ (inventory.cups <= 0 \/ inventory.ice < arg'.iceCubesPerCup) =>
                ret' = FALSE /\ inventory' = inventory /\ attempts' = 0
          /\ ret' = TRUE =>
                /\ attempts' = 1 <=> inventory.cupsLeftInPitcher <= 0
                /\ inventory' = Served(IF attempts' = 1
                                       THEN Brewed(inventory, arg')
                                       ELSE inventory, arg') ]_vars

\* pourCup failed for want of a cup, with an empty pitcher and the lemons and
\* the sugar of a pitcher at hand
C8_Witness ==
    /\ event = "pourCup"
    /\ ret = FALSE
    /\ attempts = 0
    /\ inventory.cups = 0
    /\ inventory.cupsLeftInPitcher = 0
    /\ inventory.ice >= arg.iceCubesPerCup
    /\ arg.lemonsPerPitcher > 0
    /\ arg.sugarCupsPerPitcher > 0
    /\ CanBrew(inventory, arg)

\* C9: tryBrewPitcher(recipe) returns true exactly when lemons >=
\* lemonsPerPitcher and sugar >= sugarCupsPerPitcher; then lemons and sugar are
\* reduced by those amounts, the cups left in the pitcher are cupsPerPitcher,
\* and ice and cups are unchanged; otherwise nothing is changed.
C9_TryBrewPitcher ==
    [][ event' = "tryBrewPitcher" =>
          /\ ret' = CanBrew(inventory, arg')
          /\ inventory' = IF ret' THEN Brewed(inventory, arg') ELSE inventory
          /\ inventory'.ice = inventory.ice
          /\ inventory'.cups = inventory.cups ]_vars

\* a pitcher was brewed with ice and cups in stock and lemons left
C9_Witness ==
    /\ event = "tryBrewPitcher"
    /\ ret = TRUE
    /\ arg.cupsPerPitcher > 0
    /\ arg.lemonsPerPitcher > 0
    /\ inventory.cupsLeftInPitcher = arg.cupsPerPitcher
    /\ inventory.lemons > 0
    /\ inventory.ice > 0
    /\ inventory.cups > 0

=============================================================================
